---- MODULE Spec2Model ----
(***************************************************************************)
(* Snake Speller (src/src/App.tsx): the game simulation loop of the App    *)
(* component -- tick callback, direction queue, keyboard and on-screen     *)
(* handlers, start/reset/pause, the letter placement generator and the     *)
(* high-score persistence effect.                                          *)
(*                                                                         *)
(* React state is modelled by one variable per useState/useRef cell. The   *)
(* keydown listener is installed by a passive effect whose dependencies    *)
(* are [hasStarted, gameOver, direction]; the values the installed         *)
(* listener closes over are the variable `handler`. Updates made by a      *)
(* discrete event (click, keydown) are rendered and their effects flushed  *)
(* before the event returns; updates made by the timer callback are        *)
(* rendered later and the effect that re-installs the listener runs as a   *)
(* separate task (action KeydownEffect). A key event is an input and may   *)
(* arrive before that task. Timer firings are at least 60 ms apart (the    *)
(* floor of line 158), so the effects of one firing, among them the one    *)
(* that stores the new callback in savedCallback (lines 45-47), have run   *)
(* before the next firing: Tick always reads the current state.            *)
(***************************************************************************)
EXTENDS Integers, Sequences, FiniteSets, TLC

\* ---------------------------------------------------------------- constants
GRID_SIZE == 20

INITIAL_SNAKE ==
    << [x |-> 10, y |-> 10], [x |-> 10, y |-> 11], [x |-> 10, y |-> 12] >>

INITIAL_DIRECTION == [x |-> 0, y |-> -1]

BASE_SPEED == 150

WORDS ==
    << <<"S","E","R","P","E","N","T","E">>,
       <<"M","E","L","A">>,
       <<"G","I","O","C","O">>,
       <<"C","O","M","P","U","T","E","R">>,
       <<"P","R","O","G","R","A","M","M","A">>,
       <<"T","A","S","T","I","E","R","A">>,
       <<"P","Y","T","H","O","N">>,
       <<"R","E","A","C","T">>,
       <<"J","A","V","A","S","C","R","I","P","T">>,
       <<"C","O","D","I","C","E">>,
       <<"I","N","F","O","R","M","A","T","I","C","A">>,
       <<"S","V","I","L","U","P","P","O">>,
       <<"W","E","B">>,
       <<"I","N","T","E","R","N","E","T">>,
       <<"S","C","H","E","R","M","O">>,
       <<"A","L","G","O","R","I","T","M","O">>,
       <<"V","A","R","I","A","B","I","L","E">>,
       <<"F","U","N","Z","I","O","N","E">>,
       <<"S","I","S","T","E","M","A">>,
       <<"R","E","T","E">> >>

\* ------------------------------------------------------------------- bounds
\* timer firings that execute a step (phase Running)
MaxRun == 10
\* longest direction queue explored
MaxQueue == 2
\* directions appended to the queue over the whole run
MaxPush == 3

\* -------------------------------------------------------------------- state
VARIABLES
    hasStarted,      \* useState(false)
    snake,           \* useState(INITIAL_SNAKE), head first
    direction,       \* useState(INITIAL_DIRECTION), the committed direction
    directionQueue,  \* useRef([]), oldest first
    word,            \* useState(WORDS[0])
    wordIndex,       \* useState(0), 0-based
    foods,           \* useState(generateFoodsForWord(...))
    score,           \* useState(0)
    highScore,       \* useState(localStorage value or 0)
    gameOver,        \* useState(false)
    isPaused,        \* useState(false)
    speed,           \* useState(BASE_SPEED)
    storage,         \* localStorage['snakeSpellerHighScore']: digits, or <<>> when absent
    handler,         \* [hasStarted, gameOver, direction] the installed keydown listener closes over
    hung,            \* the callback is inside the generator's while(true) and never leaves it
    ticksRun,        \* number of timer firings that executed a step
    tickIdle,        \* a timer firing returned at the guard of line 107 since the phase last changed
    pushes,          \* number of directions appended to the queue so far
    gWord, gSnake, gSeed, gResult, gPc   \* a stand-alone call of generateFoodsForWord

gameVars ==
    << hasStarted, snake, direction, directionQueue, word, wordIndex, foods,
       score, highScore, gameOver, isPaused, speed, storage, handler, hung,
       ticksRun, tickIdle, pushes >>

genVars == << gWord, gSnake, gSeed, gResult, gPc >>

vars == << gameVars, genVars >>

\* ------------------------------------------------------------------ helpers
Cell(cx, cy) == [x |-> cx, y |-> cy]

Neg(d) == [x |-> 0 - d.x, y |-> 0 - d.y]

Max(a, b) == IF a >= b THEN a ELSE b

CellsOf(s) == { s[i] : i \in 1..Len(s) }

InGrid(c) == c.x >= 0 /\ c.x < GRID_SIZE /\ c.y >= 0 /\ c.y < GRID_SIZE

\* ------------------------------------------------- Math.random (bounded)
\* Math.random is modelled by a finite choice of draw sequences. A sequence
\* starts with an explicit prefix and then walks the grid row by row, so it
\* hits every cell within GRID_SIZE*GRID_SIZE further draws.
RandPrefix ==
    << << Cell(10,11), Cell(10,9), Cell(10,8), Cell(10,7), Cell(10,6),
          Cell(10,5), Cell(10,4), Cell(10,3), Cell(10,2), Cell(10,1),
          Cell(10,0) >>,
       << Cell(11,10), Cell(10,10), Cell(10,9), Cell(11,10), Cell(11,9),
          Cell(3,3), Cell(12,10), Cell(16,4), Cell(4,15), Cell(15,15) >> >>

Seeds == 1..Len(RandPrefix)

\* the k-th cell {x: floor(random*GRID_SIZE), y: floor(random*GRID_SIZE)} drawn
RandomCell(seed, k) ==
    IF k <= Len(RandPrefix[seed])
    THEN RandPrefix[seed][k]
    ELSE LET n == (k - Len(RandPrefix[seed]) - 1) % (GRID_SIZE * GRID_SIZE)
         IN  Cell(n % GRID_SIZE, n \div GRID_SIZE)

\* outcomes of Math.random explored when a word is picked and its foods placed:
\* << Math.floor(Math.random() * WORDS.length), draw sequence of the placement >>
RandOutcomes == { << 12, 1 >>, << 19, 2 >> }

\* ------------------------------------------------- generateFoodsForWord
\* a call that never leaves the while(true) of lines 26-33 has no return value
Hang == [returns |-> FALSE, foods |-> <<>>]

Return(fs) == [returns |-> TRUE, foods |-> fs]

Food(i, p, l) == [id |-> <<i, p.x, p.y>>, x |-> p.x, y |-> p.y, letter |-> l]

\* the draws one run of the while(true) of lines 26-33 can make after k draws:
\* long enough for the draw sequence to pass over every cell of the grid
Window(seed, k) == (k + 1)..(k + Len(RandPrefix[seed]) + GRID_SIZE * GRID_SIZE)

\* variant of GenLoop: line 35 (occupied.push(newPos)) is missing
RECURSIVE GenLoopNoPush(_, _, _, _, _, _)
GenLoopNoPush(w, occupied, fs, i, k, seed) ==
    IF i >= Len(w) THEN Return(fs)
    ELSE IF \A j \in Window(seed, k) : RandomCell(seed, j) \in occupied THEN Hang
    ELSE LET kk == CHOOSE j \in Window(seed, k) :
                       /\ RandomCell(seed, j) \notin occupied
                       /\ \A m \in (k + 1)..(j - 1) : RandomCell(seed, m) \in occupied
             newPos == RandomCell(seed, kk)
         IN  GenLoopNoPush(w, occupied,
                           Append(fs, Food(i, newPos, w[i + 1])), i + 1, kk, seed)

\* the for loop of lines 24-36: i letters placed and k draws made so far. The
\* while loop leaves at the first draw that is not occupied; when no draw of
\* the window is free no cell of the grid is, and the loop never leaves.
RECURSIVE GenLoop(_, _, _, _, _, _)
GenLoop(w, occupied, fs, i, k, seed) ==
    IF i >= Len(w) THEN Return(fs)
    ELSE IF \A j \in Window(seed, k) : RandomCell(seed, j) \in occupied THEN Hang
    ELSE LET kk == CHOOSE j \in Window(seed, k) :
                       /\ RandomCell(seed, j) \notin occupied
                       /\ \A m \in (k + 1)..(j - 1) : RandomCell(seed, m) \in occupied
             newPos == RandomCell(seed, kk)
         IN  GenLoop(w, occupied \cup {newPos},
                     Append(fs, Food(i, newPos, w[i + 1])), i + 1, kk, seed)

\* variant of generateFoodsForWord: occupied starts empty instead of [...snake]
generateFoodsNoSnake(w, s, seed) == GenLoop(w, {}, <<>>, 0, 0, seed)

generateFoodsForWord(w, s, seed) == GenLoop(w, CellsOf(s), <<>>, 0, 0, seed)

\* ------------------------------------------------- localStorage encoding
RECURSIVE toString(_)
toString(n) == IF n < 10 THEN <<n>> ELSE Append(toString(n \div 10), n % 10)

RECURSIVE parseInt(_)
parseInt(ds) ==
    IF Len(ds) = 0 THEN 0
    ELSE parseInt(SubSeq(ds, 1, Len(ds) - 1)) * 10 + ds[Len(ds)]

\* construction explored: the draw sequence of the first food set and the value
\* found in localStorage (<<>> when the key is absent)
InitChoices == { << 1, <<>> >>, << 2, toString(20) >> }

\* ------------------------------------------------------------------ phase
Phase ==
    IF ~hasStarted THEN "NotStarted"
    ELSE IF gameOver THEN "GameOver"
    ELSE IF isPaused THEN "Paused"
    ELSE "Running"

Deps(hs, go, dir) == [hasStarted |-> hs, gameOver |-> go, direction |-> dir]

\* ------------------------------------------------------------------- Init
GenIdle ==
    /\ gWord = <<>>
    /\ gSnake = <<>>
    /\ gSeed = 1
    /\ gResult = <<>>
    /\ gPc = "off"

Init ==
    /\ hasStarted = FALSE
    /\ snake = INITIAL_SNAKE
    /\ direction = INITIAL_DIRECTION
    /\ directionQueue = <<>>
    /\ word = WORDS[1]
    /\ wordIndex = 0
    /\ \E c \in InitChoices :
          /\ foods = generateFoodsForWord(WORDS[1], INITIAL_SNAKE, c[1]).foods
          /\ storage = c[2]
          /\ highScore = IF Len(c[2]) > 0 THEN parseInt(c[2]) ELSE 0
    /\ score = 0
    /\ gameOver = FALSE
    /\ isPaused = FALSE
    /\ speed = BASE_SPEED
    /\ handler = Deps(FALSE, FALSE, INITIAL_DIRECTION)
    /\ hung = FALSE
    /\ ticksRun = 0
    /\ tickIdle = FALSE
    /\ pushes = 0
    /\ GenIdle

\* ------------------------------------------- high-score effect (79-84)
\* variant of HighScoreEffect: the test of line 80 is score >= highScore
HighScoreEffectGe(newScore) ==
    IF newScore >= highScore
    THEN /\ highScore' = newScore
         /\ storage' = toString(newScore)
    ELSE UNCHANGED << highScore, storage >>

\* variant of HighScoreEffect: the test of line 80 is score !== highScore
HighScoreEffectNe(newScore) ==
    IF newScore # highScore
    THEN /\ highScore' = newScore
         /\ storage' = toString(newScore)
    ELSE UNCHANGED << highScore, storage >>

HighScoreEffect(newScore) ==
    IF newScore > highScore
    THEN /\ highScore' = newScore
         /\ storage' = toString(newScore)
    ELSE UNCHANGED << highScore, storage >>

\* ------------------------------------------------- tick (lines 106-173)
findIndex(fs, c) ==
    IF \E i \in 1..Len(fs) : fs[i].x = c.x /\ fs[i].y = c.y
    THEN (CHOOSE i \in 1..Len(fs) :
             /\ fs[i].x = c.x /\ fs[i].y = c.y
             /\ \A j \in 1..(i - 1) : ~(fs[j].x = c.x /\ fs[j].y = c.y)) - 1
    ELSE -1

\* variant of splice1: splice(eatenFoodIndex) without the count removes the
\* eaten food and every food after it
splice1ToEnd(fs, idx) == SubSeq(fs, 1, idx)

\* variant of splice1: removes the first food instead of the eaten one
splice1First(fs, idx) == Tail(fs)

splice1(fs, idx) ==
    [ i \in 1..(Len(fs) - 1) |-> IF i <= idx THEN fs[i] ELSE fs[i + 1] ]

currentNextDir ==
    IF Len(directionQueue) > 0 THEN Head(directionQueue) ELSE direction

newHead ==
    Cell(snake[1].x + currentNextDir.x, snake[1].y + currentNextDir.y)

\* variant of TickGuard: isPaused is not tested
TickGuardNoPause == ~hasStarted \/ gameOver

TickGuard == ~hasStarted \/ gameOver \/ isPaused

\* variant of WallCollision: the test newHead.x >= GRID_SIZE is missing
WallCollisionNoRight ==
    newHead.x < 0 \/ newHead.y < 0 \/ newHead.y >= GRID_SIZE

WallCollision ==
    newHead.x < 0 \/ newHead.x >= GRID_SIZE \/ newHead.y < 0 \/ newHead.y >= GRID_SIZE

\* variant of SelfCollision: the tail cell, about to move away, is not tested
SelfCollisionBody ==
    \E i \in 1..(Len(snake) - 1) : snake[i].x = newHead.x /\ snake[i].y = newHead.y

SelfCollision ==
    \E i \in 1..Len(snake) : snake[i].x = newHead.x /\ snake[i].y = newHead.y

\* variant of CorrectLetter: any letter of the word is accepted
CorrectLetterAny(f) == \E i \in 1..Len(word) : f.letter = word[i]

CorrectLetter(f) == f.letter = word[wordIndex + 1]

CorrectScore(s) == s + 10

BonusScore(s) == s + 50

\* variant of NextSpeed: Math.min in place of Math.max
NextSpeedMin(s) == IF 60 <= s - 5 THEN 60 ELSE s - 5

\* variant of popTail: newSnake.pop() is missing
popTailKeep(s) == s

\* line 169: newSnake.pop()
popTail(s) == SubSeq(s, 1, Len(s) - 1)

NextSpeed(s) == Max(60, s - 5)

Drain ==
    IF Len(directionQueue) > 0
    THEN /\ directionQueue' = Tail(directionQueue)
         /\ direction' = Head(directionQueue)
    ELSE UNCHANGED << directionQueue, direction >>

Tick ==
    /\ ~hung
    /\ handler = Deps(hasStarted, gameOver, direction)
    /\ IF TickGuard
       THEN /\ tickIdle' = TRUE
            /\ UNCHANGED << hasStarted, snake, direction, directionQueue, word,
                            wordIndex, foods, score, highScore, gameOver,
                            isPaused, speed, storage, handler, hung, ticksRun >>
       ELSE /\ ticksRun < MaxRun
            /\ ticksRun' = ticksRun + 1
            /\ tickIdle' = FALSE
            /\ Drain
            /\ UNCHANGED << hasStarted, isPaused, handler >>
            /\ IF WallCollision \/ SelfCollision
               THEN /\ gameOver' = TRUE
                    /\ UNCHANGED << snake, word, wordIndex, foods, score,
                                    highScore, speed, storage, hung >>
               ELSE LET newSnake == << newHead >> \o snake
                        eatenFoodIndex == findIndex(foods, newHead)
                    IN  IF eatenFoodIndex # -1
                        THEN IF CorrectLetter(foods[eatenFoodIndex + 1])
                             THEN LET newFoods == splice1(foods, eatenFoodIndex)
                                      nextIndex == wordIndex + 1
                                  IN  IF nextIndex >= Len(word)
                                      THEN \E r \in RandOutcomes :
                                           LET nextWord == WORDS[r[1] + 1]
                                               gen == generateFoodsForWord(nextWord, newSnake, r[2])
                                           IN  IF ~gen.returns
                                               THEN /\ hung' = TRUE
                                                    /\ UNCHANGED << snake, word, wordIndex, foods,
                                                                    score, highScore, speed,
                                                                    storage, gameOver >>
                                               ELSE /\ score' = BonusScore(CorrectScore(score))
                                                    /\ HighScoreEffect(BonusScore(CorrectScore(score)))
                                                    /\ word' = nextWord
                                                    /\ wordIndex' = 0
                                                    /\ foods' = gen.foods
                                                    /\ speed' = NextSpeed(speed)
                                                    /\ snake' = newSnake
                                                    /\ UNCHANGED << gameOver, hung >>
                                      ELSE /\ score' = CorrectScore(score)
                                           /\ HighScoreEffect(CorrectScore(score))
                                           /\ wordIndex' = nextIndex
                                           /\ foods' = newFoods
                                           /\ snake' = newSnake
                                           /\ UNCHANGED << word, speed, gameOver, hung >>
                             ELSE /\ gameOver' = TRUE
                                  /\ UNCHANGED << snake, word, wordIndex, foods, score,
                                                  highScore, speed, storage, hung >>
                        ELSE /\ snake' = popTail(newSnake)
                             /\ UNCHANGED << word, wordIndex, foods, score, highScore,
                                             speed, storage, gameOver, hung >>
    /\ UNCHANGED pushes
    /\ UNCHANGED genVars

\* ------------------------- keydown effect re-registration (lines 175-225)
KeydownEffect ==
    /\ ~hung
    /\ handler # Deps(hasStarted, gameOver, direction)
    /\ handler' = Deps(hasStarted, gameOver, direction)
    /\ UNCHANGED << hasStarted, snake, direction, directionQueue, word, wordIndex,
                    foods, score, highScore, gameOver, isPaused, speed, storage,
                    hung, ticksRun, tickIdle, pushes >>
    /\ UNCHANGED genVars

\* ------------------------------------------ handleKeyDown (lines 176-221)
Keys == { "ArrowUp", "s", "A", "ArrowRight", " ", "Enter" }

lastDirOf(dir) ==
    IF Len(directionQueue) > 0 THEN directionQueue[Len(directionQueue)] ELSE dir

\* the switch of lines 189-214 for the direction keys; NoDir is newDir = null
NoDir == [x |-> 0, y |-> 0]

KeyNewDir(key, lastDir) ==
    IF key \in {"ArrowUp", "w", "W"}
    THEN (IF lastDir.y # 1 THEN Cell(0, -1) ELSE NoDir)
    ELSE IF key \in {"ArrowDown", "s", "S"}
    THEN (IF lastDir.y # -1 THEN Cell(0, 1) ELSE NoDir)
    ELSE IF key \in {"ArrowLeft", "a", "A"}
    THEN (IF lastDir.x # 1 THEN Cell(-1, 0) ELSE NoDir)
    ELSE IF key \in {"ArrowRight", "d", "D"}
    THEN (IF lastDir.x # -1 THEN Cell(1, 0) ELSE NoDir)
    ELSE NoDir

\* lines 216-220 and 237-239: push unless equal to the reference direction
Push(lastDir, newDir) ==
    IF lastDir.x # newDir.x \/ lastDir.y # newDir.y
    THEN /\ Len(directionQueue) < MaxQueue
         /\ pushes < MaxPush
         /\ directionQueue' = Append(directionQueue, newDir)
         /\ pushes' = pushes + 1
    ELSE UNCHANGED << directionQueue, pushes >>

handleKeyDown(key) ==
    /\ ~hung
    /\ IF ~handler.hasStarted \/ handler.gameOver
       THEN UNCHANGED << directionQueue, pushes, isPaused, handler, tickIdle >>
       ELSE IF key \in {" ", "Escape"}
       THEN /\ isPaused' = ~isPaused
            /\ handler' = Deps(hasStarted, gameOver, direction)
            /\ tickIdle' = FALSE
            /\ UNCHANGED << directionQueue, pushes >>
       ELSE LET lastDir == lastDirOf(handler.direction)
                newDir == KeyNewDir(key, lastDir)
            IN  /\ IF newDir # NoDir
                   THEN Push(lastDir, newDir)
                   ELSE UNCHANGED << directionQueue, pushes >>
                /\ UNCHANGED << isPaused, handler, tickIdle >>
    /\ UNCHANGED << hasStarted, snake, direction, word, wordIndex, foods, score,
                    highScore, gameOver, speed, storage, hung, ticksRun >>
    /\ UNCHANGED genVars

KeyDownAction == \E key \in Keys : handleKeyDown(key)

\* ------------------------------------- handleDirectionClick (lines 227-240)
Directions == { Cell(0, -1), Cell(-1, 0), Cell(0, 1), Cell(1, 0) }

handleDirectionClick(newDir) ==
    /\ ~hung
    /\ IF ~hasStarted \/ gameOver \/ isPaused
       THEN UNCHANGED << directionQueue, pushes >>
       ELSE LET lastDir == lastDirOf(direction)
            IN  IF lastDir.x # 0 /\ newDir.x = 0 - lastDir.x
                THEN UNCHANGED << directionQueue, pushes >>
                ELSE IF lastDir.y # 0 /\ newDir.y = 0 - lastDir.y
                THEN UNCHANGED << directionQueue, pushes >>
                ELSE Push(lastDir, newDir)
    /\ UNCHANGED << hasStarted, snake, direction, word, wordIndex, foods, score,
                    highScore, gameOver, isPaused, speed, storage, handler, hung,
                    ticksRun, tickIdle >>
    /\ UNCHANGED genVars

DirectionClickAction == \E newDir \in Directions : handleDirectionClick(newDir)

\* ------------------------------------ pause button onClick (lines 281-286)
PauseButtonClick ==
    /\ ~hung
    /\ hasStarted /\ ~gameOver
    /\ isPaused' = ~isPaused
    /\ handler' = Deps(hasStarted, gameOver, direction)
    /\ UNCHANGED << hasStarted, snake, direction, directionQueue, word, wordIndex,
                    foods, score, highScore, gameOver, speed, storage, hung,
                    ticksRun, pushes >>
    /\ tickIdle' = FALSE
    /\ UNCHANGED genVars

\* ---------------------------------- "Riprendi" onClick (lines 387-393)
ResumeClick ==
    /\ ~hung
    /\ isPaused /\ ~gameOver /\ hasStarted
    /\ isPaused' = FALSE
    /\ handler' = Deps(hasStarted, gameOver, direction)
    /\ UNCHANGED << hasStarted, snake, direction, directionQueue, word, wordIndex,
                    foods, score, highScore, gameOver, speed, storage, hung,
                    ticksRun, pushes >>
    /\ tickIdle' = FALSE
    /\ UNCHANGED genVars

\* ------------------------------------------------ startGame (lines 101-104)
startGame ==
    /\ ~hung
    /\ ~hasStarted
    /\ hasStarted' = TRUE
    /\ handler' = Deps(TRUE, gameOver, direction)
    /\ UNCHANGED << snake, direction, directionQueue, word, wordIndex, foods,
                    score, highScore, gameOver, isPaused, speed, storage, hung,
                    ticksRun, pushes >>
    /\ tickIdle' = FALSE
    /\ UNCHANGED genVars

\* variant of resetGame: setScore(0) is missing
resetGameKeepScore(wi, seed) ==
    /\ ~hung
    /\ gameOver
    /\ snake' = INITIAL_SNAKE
    /\ direction' = INITIAL_DIRECTION
    /\ directionQueue' = <<>>
    /\ word' = WORDS[wi + 1]
    /\ wordIndex' = 0
    /\ foods' = generateFoodsForWord(WORDS[wi + 1], INITIAL_SNAKE, seed).foods
    /\ score' = score
    /\ speed' = BASE_SPEED
    /\ gameOver' = FALSE
    /\ isPaused' = FALSE
    /\ HighScoreEffect(score)
    /\ handler' = Deps(hasStarted, FALSE, INITIAL_DIRECTION)
    /\ UNCHANGED << hasStarted, hung, ticksRun, pushes >>
    /\ tickIdle' = FALSE
    /\ UNCHANGED genVars

\* ------------------------------------------------- resetGame (lines 86-99)
resetGame(wi, seed) ==
    /\ ~hung
    /\ gameOver
    /\ snake' = INITIAL_SNAKE
    /\ direction' = INITIAL_DIRECTION
    /\ directionQueue' = <<>>
    /\ word' = WORDS[wi + 1]
    /\ wordIndex' = 0
    /\ foods' = generateFoodsForWord(WORDS[wi + 1], INITIAL_SNAKE, seed).foods
    /\ score' = 0
    /\ speed' = BASE_SPEED
    /\ gameOver' = FALSE
    /\ isPaused' = FALSE
    /\ HighScoreEffect(0)
    /\ handler' = Deps(hasStarted, FALSE, INITIAL_DIRECTION)
    /\ UNCHANGED << hasStarted, hung, ticksRun, pushes >>
    /\ tickIdle' = FALSE
    /\ UNCHANGED genVars

ResetAction == \E r \in RandOutcomes : resetGame(r[1], r[2])

\* ------------------------------------------------------------ specification
Next ==
    \/ Tick
    \/ KeydownEffect
    \/ KeyDownAction
    \/ DirectionClickAction
    \/ PauseButtonClick
    \/ ResumeClick
    \/ startGame
    \/ ResetAction

Spec == Init /\ [][Next]_vars

\* --------------------------- generateFoodsForWord called on its own inputs
\* a snake that winds over the whole board row by row, and its first n cells
BoardPath ==
    [ i \in 1..(GRID_SIZE * GRID_SIZE) |->
        LET r == (i - 1) \div GRID_SIZE
            c == (i - 1) % GRID_SIZE
        IN  Cell(IF r % 2 = 0 THEN c ELSE GRID_SIZE - 1 - c, r) ]

GenWords ==
    { WORDS[1], WORDS[2], WORDS[8], WORDS[11], WORDS[13], WORDS[20],
      <<"A", "A">>, <<>> }

GenSnakes ==
    { INITIAL_SNAKE,
      <<>>,
      << Cell(10,2), Cell(10,3), Cell(10,4), Cell(10,5), Cell(10,6), Cell(10,7),
         Cell(10,8), Cell(10,9), Cell(10,10), Cell(10,11), Cell(10,12) >>,
      << Cell(11,9), Cell(11,10), Cell(10,10), Cell(10,9) >>,
      SubSeq(BoardPath, 1, 230),
      SubSeq(BoardPath, 1, GRID_SIZE * GRID_SIZE - 4),
      BoardPath }

InitGen ==
    /\ hasStarted = FALSE
    /\ snake = INITIAL_SNAKE
    /\ direction = INITIAL_DIRECTION
    /\ directionQueue = <<>>
    /\ word = WORDS[1]
    /\ wordIndex = 0
    /\ foods = generateFoodsForWord(WORDS[1], INITIAL_SNAKE, 1).foods
    /\ score = 0
    /\ storage = <<>>
    /\ highScore = 0
    /\ gameOver = FALSE
    /\ isPaused = FALSE
    /\ speed = BASE_SPEED
    /\ handler = Deps(FALSE, FALSE, INITIAL_DIRECTION)
    /\ hung = FALSE
    /\ ticksRun = 0
    /\ tickIdle = FALSE
    /\ pushes = 0
    /\ gWord \in GenWords
    /\ gSnake \in GenSnakes
    /\ gSeed \in Seeds
    /\ gResult = <<>>
    /\ gPc = "call"

Generate ==
    /\ gPc = "call"
    /\ LET r == generateFoodsForWord(gWord, gSnake, gSeed)
       IN  /\ gResult' = r.foods
           /\ gPc' = IF r.returns THEN "done" ELSE "hang"
    /\ UNCHANGED << gWord, gSnake, gSeed >>
    /\ UNCHANGED gameVars

NextGen == Generate

SpecGen == InitGen /\ [][NextGen]_vars

\* ================================================================ properties
\* a step in which the timer callback got past the guard of line 107
RunTick == ticksRun' = ticksRun + 1

\* a step in which the timer callback fired at all
AnyTick == ticksRun' # ticksRun \/ (~tickIdle /\ tickIdle')

\* the cell the head moves to in a RunTick step, from the direction the step commits
Target == Cell(snake[1].x + direction'.x, snake[1].y + direction'.y)

FoodsAt(c) == { i \in 1..Len(foods) : foods[i].x = c.x /\ foods[i].y = c.y }

Catalog == { WORDS[i] : i \in 1..Len(WORDS) }

\* C1: a tick never sets the committed direction to the exact negation of the
\* committed direction it had immediately before that tick.
C1_NoReversalCommitted ==
    [][RunTick => direction' # Neg(direction)]_vars

\* C2: whenever generateFoodsForWord(W, O) returns, it returns len(W) foods,
\* the i-th carrying W[i], at positions inside the grid, pairwise distinct
\* and disjoint from O.
C2_GeneratorContract ==
    gPc = "done" =>
        /\ Len(gResult) = Len(gWord)
        /\ \A i \in 1..Len(gResult) :
              /\ gResult[i].letter = gWord[i]
              /\ InGrid(Cell(gResult[i].x, gResult[i].y))
              /\ Cell(gResult[i].x, gResult[i].y) \notin CellsOf(gSnake)
        /\ \A i, j \in 1..Len(gResult) :
              i # j => Cell(gResult[i].x, gResult[i].y) # Cell(gResult[j].x, gResult[j].y)

\* C2 witness: a returned call for the 8-letter word against the initial
\* snake in which draws were rejected (snake cell and repeated cell).
C2_Witness ==
    /\ gPc = "done"
    /\ gWord = WORDS[1]
    /\ gSnake = INITIAL_SNAKE
    /\ gSeed = 2
    /\ Len(gResult) = 8

\* C3: a Running tick that does not end in GameOver leaves the snake length
\* unchanged when there is no food at the new head and adds exactly one when
\* there is; the length never decreases.
C3_LengthStep ==
    [][(RunTick /\ ~gameOver') =>
          Len(snake') = IF FoodsAt(Target) = {} THEN Len(snake) ELSE Len(snake) + 1]_vars

\* C3 witness: a live game in which the snake has both grown and moved
\* without growing.
C3_Witness ==
    /\ ~gameOver
    /\ Len(snake) > 3
    /\ ticksRun > Len(snake) - 3
    /\ score = 10 * (Len(snake) - 3)

\* C4: the score never decreases from one state to the next except in a reset
\* (GameOver left), which sets it to 0; it is 0 in the first Running state
\* after start and after every reset.
C4_ScoreMonotone ==
    [][/\ (score' < score => gameOver /\ ~gameOver')
       /\ (gameOver /\ ~gameOver' => score' = 0)
       /\ (~hasStarted /\ hasStarted' => score' = 0)]_vars

\* C4 witness: a new game after a game in which at least 30 points were scored.
C4_Witness ==
    /\ hasStarted /\ ~gameOver
    /\ score = 0
    /\ highScore >= 30

\* C5: a tick that eats the last letter of the word adds 60 to the score,
\* selects a catalog word, sets the progress index to 0, replaces the food set
\* by len(newWord) foods placed against the grown snake, and sets the tick
\* interval to max(60, interval - 5).
C5_WordCompletion ==
    [][(/\ RunTick
        /\ \E i \in FoodsAt(Target) : foods[i].letter = word[wordIndex + 1]
        /\ wordIndex + 1 = Len(word))
       =>
       (/\ score' = score + 60
        /\ word' \in Catalog
        /\ wordIndex' = 0
        /\ snake' = << Target >> \o snake
        /\ Len(foods') = Len(word')
        /\ \A i \in 1..Len(foods') :
              /\ foods'[i].letter = word'[i]
              /\ InGrid(Cell(foods'[i].x, foods'[i].y))
              /\ Cell(foods'[i].x, foods'[i].y) \notin CellsOf(snake')
        /\ \A i, j \in 1..Len(foods') :
              i # j => Cell(foods'[i].x, foods'[i].y) # Cell(foods'[j].x, foods'[j].y)
        /\ speed' = (IF speed - 5 >= 60 THEN speed - 5 ELSE 60))]_vars

\* C5 witness: a word has just been completed.
C5_Witness ==
    /\ speed = BASE_SPEED - 5
    /\ wordIndex = 0
    /\ score >= 60
    /\ Len(foods) = Len(word)
    /\ ~gameOver

\* C6: a tick that eats the expected letter when it is not the last one adds
\* 10 to the score, increments the progress index, grows the snake by the new
\* head, removes exactly the eaten food and leaves word and interval unchanged.
C6_CorrectLetter ==
    [][(/\ RunTick
        /\ \E i \in FoodsAt(Target) : foods[i].letter = word[wordIndex + 1]
        /\ wordIndex + 1 < Len(word))
       =>
       (/\ score' = score + 10
        /\ wordIndex' = wordIndex + 1
        /\ snake' = << Target >> \o snake
        /\ \E i \in FoodsAt(Target) :
              foods' = [ j \in 1..(Len(foods) - 1) |->
                            IF j < i THEN foods[j] ELSE foods[j + 1] ]
        /\ word' = word
        /\ speed' = speed)]_vars

\* C6 witness: the second letter eaten was a later food of the sequence
\* (the first two letters eaten, foods 1 and 5 of 8).
C6_Witness ==
    /\ wordIndex = 2
    /\ score = 20
    /\ Len(snake) = 5
    /\ Len(foods) = 6
    /\ foods[1].id[1] = 1
    /\ ~gameOver

\* C7: a Running tick whose new head is outside the grid or on a snake cell
\* (tail included) sets gameOver and leaves snake, score, progress index, word,
\* food set and tick interval unchanged.
C7_Collision ==
    [][(RunTick /\ (~InGrid(Target) \/ Target \in CellsOf(snake)))
       =>
       (/\ gameOver'
        /\ UNCHANGED << snake, score, wordIndex, word, foods, speed >>)]_vars

\* C7 witness: game over at a wall.
C7_Witness ==
    /\ gameOver
    /\ ~InGrid(Cell(snake[1].x + direction.x, snake[1].y + direction.y))

\* C8: a Running tick whose new head lands on a food with another letter than
\* the expected one sets gameOver, keeps the score and leaves snake, progress
\* index, word, food set and tick interval unchanged.
C8_WrongLetter ==
    [][(/\ RunTick
        /\ \E i \in FoodsAt(Target) : foods[i].letter # word[wordIndex + 1])
       =>
       (/\ gameOver'
        /\ UNCHANGED << score, snake, wordIndex, word, foods, speed >>)]_vars

\* C8 witness: game over on a wrong letter after one correct letter.
C8_Witness ==
    /\ gameOver
    /\ score = 10
    /\ \E i \in 1..Len(foods) :
          /\ foods[i].x = snake[1].x + direction.x
          /\ foods[i].y = snake[1].y + direction.y
          /\ foods[i].letter # word[wordIndex + 1]

PhaseNext ==
    IF ~hasStarted' THEN "NotStarted"
    ELSE IF gameOver' THEN "GameOver"
    ELSE IF isPaused' THEN "Paused"
    ELSE "Running"

\* C9: the phase changes only NotStarted -> Running, Running <-> Paused,
\* Running -> GameOver (by a tick) and GameOver -> Running (by reset), and
\* gameOver and isPaused are never both true.
C9_PhaseMachine ==
    /\ [][Phase # PhaseNext =>
            \/ Phase = "NotStarted" /\ PhaseNext = "Running"
            \/ Phase = "Running" /\ PhaseNext = "Paused"
            \/ Phase = "Paused" /\ PhaseNext = "Running"
            \/ Phase = "Running" /\ PhaseNext = "GameOver" /\ RunTick
            \/ Phase = "GameOver" /\ PhaseNext = "Running" /\ score' = 0
                 /\ snake' = INITIAL_SNAKE /\ directionQueue' = <<>>]_vars
    /\ [](~(gameOver /\ isPaused))

\* C10: a tick that fires while the phase is not Running changes none of
\* snake, committed direction, direction queue, word, progress index, food
\* set, score, tick interval and the phase flags.
C10_IdleTick ==
    [][(AnyTick /\ Phase # "Running") =>
          UNCHANGED << snake, direction, directionQueue, word, wordIndex, foods,
                       score, speed, hasStarted, gameOver, isPaused >>]_vars

\* C10 witness: the timer fired during a pause while a direction was queued.
C10_Witness ==
    /\ Phase = "Paused"
    /\ tickIdle
    /\ Len(directionQueue) > 0
    /\ ticksRun > 0

\* C11: a step that enters or leaves Paused leaves the direction queue
\* unchanged, and so does every step taken while the phase is Paused, so that
\* at resume the queue holds exactly what it held at pause. (While Paused the
\* queue is never drained and resuming is always possible, so the queue at
\* resume differs from the queue at pause exactly when a step in between
\* changed it.)
C11_PauseKeepsQueue ==
    [][(Phase = "Paused" \/ PhaseNext = "Paused") =>
          directionQueue' = directionQueue]_vars

\* C12: a reset (the step that leaves GameOver) empties the direction queue,
\* sets the snake to [(10,10),(10,11),(10,12)], the committed direction to
\* (0,-1), the progress index and the score to 0, the tick interval to 150 and
\* gameOver and isPaused to false, picks a catalog word and places len(word)
\* foods at pairwise distinct cells off the snake; the high score is unchanged.
C12_Reset ==
    [][(gameOver /\ ~gameOver') =>
          /\ directionQueue' = <<>>
          /\ snake' = << Cell(10,10), Cell(10,11), Cell(10,12) >>
          /\ direction' = Cell(0,-1)
          /\ wordIndex' = 0
          /\ score' = 0
          /\ speed' = 150
          /\ ~isPaused'
          /\ word' \in Catalog
          /\ Len(foods') = Len(word')
          /\ \A i \in 1..Len(foods') :
                Cell(foods'[i].x, foods'[i].y) \notin CellsOf(snake')
          /\ \A i, j \in 1..Len(foods') :
                i # j => Cell(foods'[i].x, foods'[i].y) # Cell(foods'[j].x, foods'[j].y)
          /\ highScore' = highScore]_vars

\* C12 witness: a game restarted with the 3-letter word after a game that was
\* played with input queued and points scored.
C12_Witness ==
    /\ hasStarted /\ ~gameOver /\ ~isPaused
    /\ word = WORDS[13]
    /\ Len(foods) = 3
    /\ snake = INITIAL_SNAKE
    /\ score = 0
    /\ speed = BASE_SPEED
    /\ highScore > 0
    /\ pushes > 0
    /\ ticksRun > 1

\* C13: in every reachable state the food positions are pairwise distinct,
\* lie inside the grid, and none is a snake cell.
C13_FoodsDisjoint ==
    /\ \A i \in 1..Len(foods) :
          /\ InGrid(Cell(foods[i].x, foods[i].y))
          /\ \A k \in 1..Len(snake) :
                ~(snake[k].x = foods[i].x /\ snake[k].y = foods[i].y)
    /\ \A i, j \in 1..Len(foods) :
          i # j => ~(foods[i].x = foods[j].x /\ foods[i].y = foods[j].y)

\* C13 witness: the snake has grown over a whole word, the food set was
\* regenerated against it for the next word, and the snake moved on.
C13_Witness ==
    /\ ~gameOver
    /\ word # WORDS[1]
    /\ score >= 130
    /\ Len(snake) >= 11
    /\ ticksRun = 10
    /\ Len(foods) > 0

\* C14: in every reachable state every snake cell lies inside the grid, no two
\* snake cells are equal, and the snake has at least 3 cells.
C14_SnakeShape ==
    /\ Len(snake) >= 3
    /\ \A i \in 1..Len(snake) : InGrid(snake[i])
    /\ \A i, j \in 1..Len(snake) : i # j => snake[i] # snake[j]

\* C14 witness: a snake that grew by two letters and then ran into the right
\* wall.
C14_Witness ==
    /\ gameOver
    /\ Len(snake) = 5
    /\ snake[1].x = GRID_SIZE - 1
    /\ direction = Cell(1, 0)

\* C15: no call of generateFoodsForWord stays in its placement loop for ever:
\* for every word and occupied set the call leaves the loop (and so the tick
\* that completes a word finishes).
C15_PlacementTerminates ==
    /\ gPc # "hang"
    /\ ~hung

C17_QueueBounded ==
    Len(directionQueue) < MaxQueue

\* two unit directions at a right angle
Perp(a, b) == a.x * b.x + a.y * b.y = 0

\* the reference direction of a push: the last queued direction, or the
\* committed direction when the queue is empty
RefDir ==
    IF Len(directionQueue) > 0
    THEN directionQueue[Len(directionQueue)]
    ELSE direction

\* C18: a step that lengthens the queue appends one direction that is neither
\* equal to nor the reversal of the reference direction; and in every
\* reachable state each queued direction is perpendicular to its predecessor
\* in the queue, the oldest to the committed direction.
C18_QueuePerpendicular ==
    /\ [][Len(directionQueue') > Len(directionQueue) =>
            \E d \in Directions :
               /\ directionQueue' = Append(directionQueue, d)
               /\ d # RefDir
               /\ d # Neg(RefDir)]_vars
    /\ [](\A i \in 1..Len(directionQueue) :
              Perp(directionQueue[i],
                   IF i = 1 THEN direction ELSE directionQueue[i - 1]))

\* C19: under every interleaving of key events, ticks and the re-registration
\* of the key listener, the direction the next tick will commit (the oldest
\* queued one) is never the exact reversal of the committed direction.
C19_NoQueuedReversal ==
    Len(directionQueue) > 0 => Head(directionQueue) # Neg(direction)

\* number of foods carrying letter l, and number of occurrences of l among the
\* letters of the word still to be eaten
FoodLetters(l) == Cardinality({ i \in 1..Len(foods) : foods[i].letter = l })

RestLetters(l) == Cardinality({ i \in (wordIndex + 1)..Len(word) : word[i] = l })

\* C20: in every reachable state the letters on the foods are, as a multiset,
\* the letters word[progressIndex .. len(word)-1]; hence the progress index is
\* in 0..len(word)-1, there are len(word) - progressIndex foods, and while
\* Running some food carries the expected letter.
C20_FoodLetters ==
    /\ \A l \in { word[i] : i \in 1..Len(word) } \cup { foods[i].letter : i \in 1..Len(foods) } :
          FoodLetters(l) = RestLetters(l)
    /\ 0 <= wordIndex /\ wordIndex < Len(word)
    /\ Len(foods) = Len(word) - wordIndex
    /\ Phase = "Running" =>
          \E i \in 1..Len(foods) : foods[i].letter = word[wordIndex + 1]

\* C20 witness: of the three foods carrying E the snake ate, as second letter
\* of SERPENTE, one placed later than the first E, which is still on the board
\* at the head of the food list while R is expected.
C20_Witness ==
    /\ Phase = "Running"
    /\ word = WORDS[1]
    /\ wordIndex = 2
    /\ foods[1].letter = "E"
    /\ word[wordIndex + 1] = "R"
    /\ FoodLetters("E") = 2

====
